---- MODULE Spec2Model ----
(***************************************************************************)
(* A model of the video library / player of this repository:               *)
(*   src/App.tsx                     the root controller                    *)
(*   src/components/VideoLibrary.tsx the library view                       *)
(*   src/components/VideoPlayer.tsx  the player view                        *)
(*                                                                         *)
(* One action is one run of a handler or callback together with the        *)
(* re-render it causes and the effects that re-render runs (React flushes  *)
(* both before the next event is handled).  Handlers are modelled as the   *)
(* functions they are: whether the button that carries a handler is        *)
(* rendered is not a guard of the handler.  Callbacks that run later (the  *)
(* play promise's then/catch, the inactivity timer, the media element's    *)
(* events) are actions of their own.                                       *)
(***************************************************************************)
EXTENDS Integers, Sequences, FiniteSets, TLC

VARIABLES
    videos,              \* App: useState<VideoFile[]>            (App.tsx:8)
    currentVideoIndex,   \* App: useState<number | null>, 0-based (App.tsx:9)
    selectedFolderName,  \* VideoLibrary: useState<string | null>
    player,              \* VideoPlayer: its useState cells
    el,                  \* the <video> element behind videoRef
    controlsTimeoutRef,  \* the pending inactivity timer of the mounted player
    plays,               \* play() promises of the mounted player not yet settled
    orphanTimers,        \* a timer of an unmounted player instance is pending
    orphanPlays,         \* a bind promise of an unmounted player instance is pending
    last                 \* history: the handler that ran last and what it did

vars == <<videos, currentVideoIndex, selectedFolderName, player, el,
          controlsTimeoutRef, plays, orphanTimers, orphanPlays, last>>

----------------------------------------------------------------------------
(* Bounds of the model *)

MaxVideos == 3      \* entries the list may hold
MaxBatch == 2       \* files one folder selection delivers
NumIds == 2         \* distinct outcomes of Math.random() for an identifier
NumVideos == 2      \* entries of the list the player specifications start from
Duration == 2       \* length of a media resource, in playback steps

\* A cell that holds a value or null (or NaN) holds <<value>> or <<>>.
null == <<>>
NaN == <<>>
Some(x) == <<x>>
Val(cell) == cell[1]

----------------------------------------------------------------------------
(* types.ts *)

FIT == "Fit"
STRETCH == "Stretch"
CROP == "Crop"
SIXTEEN_NINE == "16:9"
FOUR_THREE == "4:3"

AspectRatio == {FIT, STRETCH, CROP, SIXTEEN_NINE, FOUR_THREE}

\* A VideoFile: the fields the handlers read.  url is the object URL, which
\* URL.createObjectURL makes anew for every file.
VideoFile(id, folderName, url) == [id |-> id, folderName |-> folderName, url |-> url]

\* Playback speeds are written in hundredths: 100 is the speed 1, 125 is 1.25.
DefaultSettings == [playbackSpeed |-> 100, aspectRatio |-> FIT, isLocked |-> FALSE]

----------------------------------------------------------------------------
(* VideoLibrary.tsx *)

RECURSIVE MapFiles(_, _)
RECURSIVE findIndexFrom(_, _, _)

\* A picked file: its MIME type as the segments around '/', its
\* webkitRelativePath as the segments around '/', and the value Math.random()
\* gives when its identifier is made.
FileTypes == {<<"video", "mp4">>, <<"text", "plain">>}
FilePaths == {<<"a.mp4">>, <<"DCIM", "Camera", "a.mp4">>}
Ids == 1..NumIds
Files ==
    [type : {<<"video", "mp4">>}, webkitRelativePath : FilePaths, random : Ids]
    \cup [type : {<<"text", "plain">>}, webkitRelativePath : {<<"a.txt">>}, random : {1}]

\* file.type.startsWith('video/')
IsVideoType(type) == type[1] = "video"

\* pathParts.length > 1 ? pathParts[pathParts.length - 2] : 'Internal Storage'
FolderNameOf(pathParts) ==
    IF Len(pathParts) > 1 THEN pathParts[Len(pathParts) - 1] ELSE "Internal Storage"

\* videoFiles.map(file => ({id: Math.random()..., url: URL.createObjectURL(file), ...})):
\* the object URLs made so far are 1..made, the next one is made + 1.
MapFiles(videoFiles, made) ==
    IF videoFiles = <<>> THEN <<>>
    ELSE <<VideoFile(Head(videoFiles).random,
                     FolderNameOf(Head(videoFiles).webkitRelativePath),
                     made + 1)>>
         \o MapFiles(Tail(videoFiles), made + 1)

\* const newVideos = filesArray.filter(...).map(...)
NewVideos(filesArray, made) ==
    MapFiles(SelectSeq(filesArray, LAMBDA file : IsVideoType(file.type)), made)

\* folders[selectedFolderName]: the entries of one folder, in list order
FolderVideos(vs, folderName) == SelectSeq(vs, LAMBDA v : v.folderName = folderName)

\* Object.keys(folders)
FolderNames(vs) == {vs[i].folderName : i \in 1..Len(vs)}

\* const filteredVideos = selectedFolderName ? folders[selectedFolderName] : []
filteredVideos ==
    IF selectedFolderName # null THEN FolderVideos(videos, Val(selectedFolderName)) ELSE <<>>

\* videos.findIndex(v => v.id === id): the first position (0-based) holding
\* the identifier, -1 when there is none
findIndexFrom(vs, id, i) ==
    IF i > Len(vs) THEN -1
    ELSE IF vs[i].id = id THEN i - 1
    ELSE findIndexFrom(vs, id, i + 1)

findIndex(vs, id) == findIndexFrom(vs, id, 1)

----------------------------------------------------------------------------
(* VideoPlayer.tsx: the state of one mounted player *)

\* useState initial values (lines 22-34) of the cells a handler reads.  The cells duration, currentTime, volume and
\* brightness are only displayed and are left out.
InitialPlayer ==
    [isPlaying |-> FALSE, progress |-> Some(0), showControls |-> TRUE, error |-> null,
     settings |-> DefaultSettings]

ErrorMessage == "cannot play this video"

\* A <video> element as the document makes it: paused, no source, rate 1,
\* duration NaN until metadata is loaded.  duration is in seconds, currentTime
\* in hundredths of a second.
InitialElement ==
    [paused |-> TRUE, src |-> null, currentTime |-> 0, playbackRate |-> 100,
     duration |-> NaN]

\* What a handler works on: the state cells p, the element, the timer behind
\* controlsTimeoutRef, the play promises not yet settled, and ops, the calls
\* the handler has made so far (for the history variable).
World == [p |-> player, el |-> el, timer |-> controlsTimeoutRef, plays |-> plays, ops |-> <<>>]

MountedWorld ==
    [p |-> InitialPlayer, el |-> InitialElement, timer |-> null, plays |-> {}, ops |-> <<>>]

\* The values resetControlsTimer closes over: useCallback(..., [isPlaying, settings.isLocked])
Closure(p) == [isPlaying |-> p.isPlaying, isLocked |-> p.settings.isLocked]

Did(w, op) == [w EXCEPT !.ops = Append(@, op)]

\* resetControlsTimer (lines 38-44) as made by a render that saw closure c:
\* show the controls, clear the pending timer, schedule one whose callback
\* reads c.
resetControlsTimer(w, c) ==
    [w EXCEPT !.p.showControls = TRUE, !.timer = Some(c)]

\* The timer's callback (line 42), reading the closure it was made with.
TimerCallback(w, c) ==
    IF c.isPlaying /\ ~c.isLocked
    THEN [w EXCEPT !.p.showControls = FALSE, !.timer = null]
    ELSE [w EXCEPT !.timer = null]

\* The effect, were it to put the settings back to their defaults
VideoLoadEffect_ResetsSettings(w, video) ==
    LET w1 == Did([w EXCEPT !.p.error = null, !.p.settings = DefaultSettings], "setError(null)")
        w2 == Did([w1 EXCEPT !.el.paused = TRUE], "pause")
        w3 == Did([w2 EXCEPT !.el.src = Some(video.url)], "src")
        w4 == Did([w3 EXCEPT !.el.paused = TRUE, !.el.currentTime = 0,
                             !.el.playbackRate = 100, !.el.duration = NaN], "load")
        w5 == Did([w4 EXCEPT !.el.paused = FALSE,
                             !.plays = @ \cup {[kind |-> "bind", closure |-> Closure(w1.p)]}],
                  "play")
    IN w5

\* The effect without its load(): the element keeps its position
VideoLoadEffect_NoLoad(w, video) ==
    LET w1 == Did([w EXCEPT !.p.error = null], "setError(null)")
        w2 == Did([w1 EXCEPT !.el.paused = TRUE], "pause")
        w3 == Did([w2 EXCEPT !.el.src = Some(video.url)], "src")
        w5 == Did([w3 EXCEPT !.el.paused = FALSE,
                             !.plays = @ \cup {[kind |-> "bind", closure |-> Closure(w.p)]}],
                  "play")
    IN w5

\* Video Load Effect (lines 111-131), run by a render whose state is w.p.
\* load() resets the element: paused, position 0, rate back to the default
\* rate, duration unknown.  play() unpauses and returns a promise, which
\* stays pending with the resetControlsTimer the effect closed over.
VideoLoadEffect(w, video) ==
    LET w1 == Did([w EXCEPT !.p.error = null], "setError(null)")
        w2 == Did([w1 EXCEPT !.el.paused = TRUE], "pause")
        w3 == Did([w2 EXCEPT !.el.src = Some(video.url)], "src")
        w4 == Did([w3 EXCEPT !.el.paused = TRUE, !.el.currentTime = 0,
                             !.el.playbackRate = 100, !.el.duration = NaN], "load")
        w5 == Did([w4 EXCEPT !.el.paused = FALSE,
                             !.plays = @ \cup {[kind |-> "bind", closure |-> Closure(w.p)]}],
                  "play")
    IN w5

\* The dependency array of the effect, [video, resetControlsTimer]: the bound
\* entry (an object, told apart by its object URL) and the callback, which is
\* a new function whenever isPlaying or settings.isLocked changed.
EffectDeps(p, video) == <<video.url, Closure(p)>>

\* A re-render from state cells `before` bound to `videoBefore` to the cells
\* of w bound to `video`: the effect runs when a dependency changed.
Render(before, videoBefore, w, video) ==
    IF EffectDeps(before, videoBefore) # EffectDeps(w.p, video)
    THEN VideoLoadEffect(w, video)
    ELSE w

----------------------------------------------------------------------------
(* VideoPlayer.tsx: the handlers, as functions of the world they run in *)

\* togglePlay (lines 46-61) up to its await: play() on a paused element
\* leaves a promise pending, whose continuation is setIsPlaying(true).
togglePlay(w) ==
    IF w.p.settings.isLocked \/ w.p.error # null THEN w
    ELSE IF w.el.paused
    THEN Did([w EXCEPT !.el.paused = FALSE,
                       !.plays = @ \cup {[kind |-> "toggle"]}],
             "play")
    ELSE Did([w EXCEPT !.el.paused = TRUE, !.p.isPlaying = FALSE], "pause")

\* handleProgress (lines 63-70): (current / total) * 100, NaN while the
\* duration is unknown
handleProgress(w) ==
    [w EXCEPT !.p.progress =
        IF w.el.duration = NaN THEN NaN
        ELSE Some(w.el.currentTime \div Val(w.el.duration))]

\* handleSeek (lines 72-80)
handleSeek(w, newProgress) ==
    IF w.p.settings.isLocked THEN w
    ELSE IF w.el.duration # NaN
    THEN [w EXCEPT !.el.currentTime = newProgress * Val(w.el.duration),
                   !.p.progress = Some(newProgress)]
    ELSE w

\* order.indexOf(x), 0-based, -1 when x is not in the list
indexOf(list, x) ==
    IF \E i \in 1..Len(list) : list[i] = x
    THEN (CHOOSE i \in 1..Len(list) : list[i] = x /\ \A j \in 1..(i - 1) : list[j] # x) - 1
    ELSE -1

order == <<FIT, STRETCH, CROP, SIXTEEN_NINE, FOUR_THREE>>
speeds == <<50, 100, 125, 150, 200>>

\* The next index without the wrap: the last element stays
NextInCycle_NoWrap(list, current) ==
    list[IF indexOf(list, current) + 1 < Len(list) THEN indexOf(list, current) + 2 ELSE Len(list)]

\* order[(order.indexOf(current) + 1) % order.length]
NextInCycle(list, current) == list[((indexOf(list, current) + 1) % Len(list)) + 1]

\* changeAspectRatio (lines 89-94)
changeAspectRatio(w) ==
    [w EXCEPT !.p.settings.aspectRatio = NextInCycle(order, w.p.settings.aspectRatio)]

\* changeSpeed (lines 96-103)
changeSpeed(w) ==
    LET newSpeed == NextInCycle(speeds, w.p.settings.playbackSpeed)
    IN [w EXCEPT !.p.settings.playbackSpeed = newSpeed, !.el.playbackRate = newSpeed]

\* toggleLock (lines 105-108)
toggleLock(w) ==
    [w EXCEPT !.p.settings.isLocked = ~@, !.p.showControls = TRUE]

\* handleVideoError (lines 133-136)
handleVideoError(w) ==
    [w EXCEPT !.p.error = Some(ErrorMessage), !.p.isPlaying = FALSE]

\* onEnded reporting the end as an error
onEnded_SetsError(w) == [w EXCEPT !.p.isPlaying = FALSE, !.p.error = Some(ErrorMessage)]

\* onEnded={() => setIsPlaying(false)} (line 165)
onEnded(w) == [w EXCEPT !.p.isPlaying = FALSE]

\* The then-callback of the effect's play promise (lines 121-124), with the
\* resetControlsTimer the effect closed over.
playThen(w, c) == resetControlsTimer([w EXCEPT !.p.isPlaying = TRUE], c)

\* The catch-callback surfacing the rejection as an error
playCatch_SetsError(w) == [w EXCEPT !.p.isPlaying = FALSE, !.p.error = Some(ErrorMessage)]

\* The catch-callback of the effect's play promise (lines 125-128).
playCatch(w) == [w EXCEPT !.p.isPlaying = FALSE]

\* togglePlay after its await (line 52).
togglePlayThen(w) == [w EXCEPT !.p.isPlaying = TRUE]

----------------------------------------------------------------------------
(* App.tsx *)

\* handleNextVideo without its upper bound
NextIndex_Unguarded(index, length) ==
    IF index # null THEN Some(Val(index) + 1) ELSE index

\* handleNextVideo (lines 23-27): the index it leaves
NextIndex(index, length) ==
    IF index # null /\ Val(index) < length - 1 THEN Some(Val(index) + 1) ELSE index

\* handlePrevVideo (lines 29-33): the index it leaves
PrevIndex(index) ==
    IF index # null /\ Val(index) > 0 THEN Some(Val(index) - 1) ELSE index

\* hasNext compared against the length, not the last index
hasNext_OffByOne(index, length) == Val(index) < length

\* hasNext={currentVideoIndex < videos.length - 1} (line 49)
hasNext(index, length) == Val(index) < length - 1

\* hasPrev={currentVideoIndex > 0} (line 50)
hasPrev(index) == Val(index) > 0

\* video={videos[currentVideoIndex]} (line 45): an index outside the list
\* gives undefined.
undefined == VideoFile(0, "undefined", 0)

BoundVideo(vs, index) ==
    IF Val(index) + 1 \in DOMAIN vs THEN vs[Val(index) + 1] ELSE undefined

----------------------------------------------------------------------------
(* The actions *)

Mounted == currentVideoIndex # null

video == BoundVideo(videos, currentVideoIndex)

Commit(w, op) ==
    /\ player' = w.p
    /\ el' = w.el
    /\ controlsTimeoutRef' = w.timer
    /\ plays' = w.plays
    /\ last' = [op |-> op, ops |-> w.ops]

\* A handler or callback of the mounted player that took World to w, and the
\* re-render that follows it (the bound entry is the same).
PlayerStep(w, op) ==
    /\ Commit(Render(player, video, w, video), op)
    /\ UNCHANGED <<videos, currentVideoIndex, selectedFolderName, orphanTimers, orphanPlays>>

(* VideoLibrary *)

\* handleFolderSelect (lines 28-53) and App's handleAddVideos (lines 11-13)
HandleFolderSelect(filesArray) ==
    /\ ~Mounted
    /\ LET newVideos == NewVideos(filesArray, Len(videos))
       IN /\ Len(videos) + Len(newVideos) <= MaxVideos
          /\ videos' = videos \o newVideos
    /\ last' = [op |-> "handleFolderSelect", ops |-> <<>>]
    /\ UNCHANGED <<currentVideoIndex, selectedFolderName, player, el,
                   controlsTimeoutRef, plays, orphanTimers, orphanPlays>>

\* onClick={() => setSelectedFolderName(folderName)} (line 136)
SelectFolder(folderName) ==
    /\ ~Mounted
    /\ selectedFolderName = null
    /\ folderName \in FolderNames(videos)
    /\ selectedFolderName' = Some(folderName)
    /\ last' = [op |-> "selectFolder", ops |-> <<>>]
    /\ UNCHANGED <<videos, currentVideoIndex, player, el, controlsTimeoutRef, plays,
                   orphanTimers, orphanPlays>>

\* onClick={() => setSelectedFolderName(null)} (line 64)
LeaveFolder ==
    /\ ~Mounted
    /\ selectedFolderName # null
    /\ selectedFolderName' = null
    /\ last' = [op |-> "leaveFolder", ops |-> <<>>]
    /\ UNCHANGED <<videos, currentVideoIndex, player, el, controlsTimeoutRef, plays,
                   orphanTimers, orphanPlays>>

\* The entry's onClick (lines 156-159) on the k-th entry of the folder's file
\* list, and App's handlePlayVideo (lines 15-17): the library view is
\* replaced by a player view, whose first render runs the load effect.
PlayEntry(k) ==
    /\ ~Mounted
    /\ k \in 1..Len(filteredVideos)
    /\ LET globalIndex == findIndex(videos, filteredVideos[k].id)
       IN /\ currentVideoIndex' = Some(globalIndex)
          /\ Commit(VideoLoadEffect(MountedWorld, BoundVideo(videos, Some(globalIndex))),
                    "handlePlayVideo")
    /\ selectedFolderName' = null
    /\ UNCHANGED <<videos, orphanTimers, orphanPlays>>

(* App *)

\* handleBackToLibrary (lines 19-21): the player view is unmounted.  Nothing
\* clears its timer or its promises: they stay pending without a view.
HandleBackToLibrary ==
    /\ Mounted
    /\ currentVideoIndex' = null
    /\ orphanTimers' = (orphanTimers \/ controlsTimeoutRef # null)
    /\ orphanPlays' = (orphanPlays \/ \E pr \in plays : pr.kind = "bind")
    /\ player' = InitialPlayer
    /\ el' = InitialElement
    /\ controlsTimeoutRef' = null
    /\ plays' = {}
    /\ last' = [op |-> "handleBackToLibrary", ops |-> <<>>]
    /\ UNCHANGED <<videos, selectedFolderName>>

\* A change of the index by next or previous, and the re-render of the player
\* with the entry now bound.
Navigate(index, op) ==
    /\ currentVideoIndex' = index
    /\ IF Mounted
       THEN Commit(Render(player, video, World, BoundVideo(videos, index)), op)
       ELSE /\ last' = [op |-> op, ops |-> <<>>]
            /\ UNCHANGED <<player, el, controlsTimeoutRef, plays>>
    /\ UNCHANGED <<videos, selectedFolderName, orphanTimers, orphanPlays>>

\* handleNextVideo (lines 23-27)
HandleNextVideo == Navigate(NextIndex(currentVideoIndex, Len(videos)), "handleNextVideo")

\* handlePrevVideo (lines 29-33)
HandlePrevVideo == Navigate(PrevIndex(currentVideoIndex), "handlePrevVideo")

(* VideoPlayer: handlers *)

\* onClick={resetControlsTimer} of the player surface (line 152), with the
\* callback of the current render
ResetControlsTimer ==
    /\ Mounted
    /\ PlayerStep(resetControlsTimer(World, Closure(player)), "resetControlsTimer")

TogglePlay == Mounted /\ PlayerStep(togglePlay(World), "togglePlay")

\* The positions the range input (min 0, max 100) can report
SeekValues == {0, 50, 100}

HandleSeek(newProgress) == Mounted /\ PlayerStep(handleSeek(World, newProgress), "handleSeek")

ChangeAspectRatio == Mounted /\ PlayerStep(changeAspectRatio(World), "changeAspectRatio")

ChangeSpeed == Mounted /\ PlayerStep(changeSpeed(World), "changeSpeed")

ToggleLock == Mounted /\ PlayerStep(toggleLock(World), "toggleLock")

(* VideoPlayer: callbacks that run later *)

\* The inactivity timer fires (the callback at line 42).
TimerFires ==
    /\ Mounted
    /\ controlsTimeoutRef # null
    /\ PlayerStep(TimerCallback(World, Val(controlsTimeoutRef)), "timer")

\* plays holds one record for all pending promises made alike, so settling
\* one of them may leave the record.
Settled(pr) == {plays, plays \ {pr}}

\* The effect's play promise is fulfilled: playback has started.
PlayResolved ==
    /\ Mounted
    /\ \E pr \in plays : \E rest \in Settled(pr) :
        /\ pr.kind = "bind"
        /\ PlayerStep(playThen([World EXCEPT !.plays = rest], pr.closure), "playThen")

\* The effect's play promise is rejected: auto-play was refused (the element
\* stays paused) or the load was aborted or failed.
PlayRejected ==
    /\ Mounted
    /\ \E pr \in plays : \E rest \in Settled(pr) : \E paused \in {el.paused, TRUE} :
        /\ pr.kind = "bind"
        /\ PlayerStep(playCatch([World EXCEPT !.plays = rest, !.el.paused = paused]),
                      "playCatch")

\* togglePlay's awaited play() is fulfilled.
TogglePlayResolved ==
    /\ Mounted
    /\ \E pr \in plays : \E rest \in Settled(pr) :
        /\ pr.kind = "toggle"
        /\ PlayerStep(togglePlayThen([World EXCEPT !.plays = rest]), "togglePlayThen")

\* togglePlay's awaited play() is rejected: the catch only logs (line 58).
TogglePlayRejected ==
    /\ Mounted
    /\ \E pr \in plays : \E rest \in Settled(pr) : \E paused \in {el.paused, TRUE} :
        /\ pr.kind = "toggle"
        /\ PlayerStep([World EXCEPT !.plays = rest, !.el.paused = paused], "togglePlayCatch")

(* VideoPlayer: the media element's events *)

\* loadedmetadata: the element knows the duration of its resource.
OnLoadedMetadata ==
    /\ Mounted
    /\ el.src # null
    /\ el.duration = NaN
    /\ PlayerStep([World EXCEPT !.el.duration = Some(Duration)], "onLoadedMetadata")

\* The element plays on by a second.
Playback ==
    /\ Mounted
    /\ ~el.paused
    /\ el.duration # NaN
    /\ el.currentTime + 100 <= 100 * Val(el.duration)
    /\ PlayerStep([World EXCEPT !.el.currentTime = @ + 100], "playback")

\* timeupdate: onTimeUpdate={handleProgress} (line 163)
HandleProgress == Mounted /\ PlayerStep(handleProgress(World), "handleProgress")

\* ended: onEnded (line 165).  Whether the element counts as paused once it
\* has ended differs between engines.
OnEnded ==
    /\ Mounted
    /\ \E paused \in {el.paused, TRUE} :
        PlayerStep(onEnded([World EXCEPT !.el.paused = paused]), "onEnded")

\* error: onError={handleVideoError} (line 166)
HandleVideoError == Mounted /\ PlayerStep(handleVideoError(World), "handleVideoError")

(* Callbacks of player views that are no longer mounted *)

\* A bind promise of an unmounted view settles.  Its setState calls do
\* nothing; fulfilled, its resetControlsTimer still schedules a timer.
OrphanPlaySettles ==
    /\ orphanPlays
    /\ \E fulfilled \in BOOLEAN : \E more \in BOOLEAN :
        /\ orphanPlays' = more
        /\ orphanTimers' = (orphanTimers \/ fulfilled)
        /\ last' = [op |-> IF fulfilled THEN "orphanPlayThen" ELSE "orphanPlayCatch",
                    ops |-> <<>>]
    /\ UNCHANGED <<videos, currentVideoIndex, selectedFolderName, player, el,
                   controlsTimeoutRef, plays>>

\* A timer of an unmounted view fires: its setShowControls does nothing.
OrphanTimerFires ==
    /\ orphanTimers
    /\ \E more \in BOOLEAN : orphanTimers' = more
    /\ last' = [op |-> "orphanTimer", ops |-> <<>>]
    /\ UNCHANGED <<videos, currentVideoIndex, selectedFolderName, player, el,
                   controlsTimeoutRef, plays, orphanPlays>>

----------------------------------------------------------------------------
(* Specifications *)

Batches == UNION {[1..n -> Files] : n \in 1..MaxBatch}

\* The program as it starts: an empty list, the library view shown.
Init ==
    /\ videos = <<>>
    /\ currentVideoIndex = null
    /\ selectedFolderName = null
    /\ player = InitialPlayer
    /\ el = InitialElement
    /\ controlsTimeoutRef = null
    /\ plays = {}
    /\ orphanTimers = FALSE
    /\ orphanPlays = FALSE
    /\ last = [op |-> "init", ops |-> <<>>]

\* The program after one folder of NumVideos videos was selected.
LoadedVideos == [i \in 1..NumVideos |-> VideoFile(i, "Camera", i)]

InitLoaded ==
    /\ videos = LoadedVideos
    /\ currentVideoIndex = null
    /\ selectedFolderName = null
    /\ player = InitialPlayer
    /\ el = InitialElement
    /\ controlsTimeoutRef = null
    /\ plays = {}
    /\ orphanTimers = FALSE
    /\ orphanPlays = FALSE
    /\ last = [op |-> "handleFolderSelect", ops |-> <<>>]

NextLibrary ==
    \/ \E filesArray \in Batches : HandleFolderSelect(filesArray)

NextNavigation ==
    \/ \E folderName \in FolderNames(videos) : SelectFolder(folderName)
    \/ LeaveFolder
    \/ \E k \in 1..Len(videos) : PlayEntry(k)
    \/ HandleBackToLibrary
    \/ HandleNextVideo
    \/ HandlePrevVideo

NextControls ==
    \/ ChangeAspectRatio
    \/ ChangeSpeed
    \/ ToggleLock
    \/ \E newProgress \in SeekValues : HandleSeek(newProgress)
    \/ OnLoadedMetadata
    \/ Playback
    \/ HandleProgress
    \/ HandleVideoError

NextPlayback ==
    \/ ResetControlsTimer
    \/ TogglePlay
    \/ ToggleLock
    \/ TimerFires
    \/ PlayResolved
    \/ PlayRejected
    \/ TogglePlayResolved
    \/ TogglePlayRejected
    \/ OnEnded
    \/ HandleVideoError
    \/ OrphanPlaySettles
    \/ OrphanTimerFires

Next == NextLibrary \/ NextNavigation \/ NextControls \/ NextPlayback

\* The root controller and the library view: every action that writes the
\* list, the index or the selected folder.
SpecApp == Init /\ [][NextLibrary \/ NextNavigation]_vars

\* The player view's controls (settings, lock, seek) and the element's
\* position, over a loaded list: every action that writes the settings, the
\* progress or the element's position, rate and source.
SpecControls == InitLoaded /\ [][NextNavigation \/ NextControls]_vars

\* The player view's playback: the play promises, the inactivity timer, the
\* playing, lock and error state, over a loaded list: every action that
\* writes isPlaying, showControls, error, the timer or the promises.
SpecPlayer == InitLoaded /\ [][NextNavigation \/ NextPlayback]_vars

\* The whole program.
Spec == Init /\ [][Next]_vars

----------------------------------------------------------------------------
(* The root controller's index *)

Bound(op) == last.op = op /\ last.ops # <<>>

\* C1: in every state reached by adding entries, playing an entry selected in
\* the library view, going back, next and previous, the current index is null
\* or an integer i with 0 <= i < videos.length.
C1_IndexInBounds ==
    \/ currentVideoIndex = null
    \/ /\ Val(currentVideoIndex) \in Int
       /\ 0 <= Val(currentVideoIndex)
       /\ Val(currentVideoIndex) < Len(videos)

\* next has moved the player to the last entry of a full list
C1_Witness ==
    /\ Bound("handleNextVideo")
    /\ Len(videos) = MaxVideos
    /\ currentVideoIndex = Some(Len(videos) - 1)

\* C2: previous at index 0 and next at the last index leave the index and the
\* list unchanged; in every other case with an index set next adds exactly 1
\* and previous subtracts exactly 1; and hasNext / hasPrev, as passed to the
\* player, are true exactly when next / previous changes the index.
C2_NextPrev ==
    [][/\ (last'.op = "handleNextVideo" /\ currentVideoIndex # null) =>
            /\ videos' = videos
            /\ IF Val(currentVideoIndex) = Len(videos) - 1
               THEN currentVideoIndex' = currentVideoIndex
               ELSE currentVideoIndex' = Some(Val(currentVideoIndex) + 1)
            /\ hasNext(currentVideoIndex, Len(videos))
                 <=> (currentVideoIndex' # currentVideoIndex)
       /\ (last'.op = "handlePrevVideo" /\ currentVideoIndex # null) =>
            /\ videos' = videos
            /\ IF Val(currentVideoIndex) = 0
               THEN currentVideoIndex' = currentVideoIndex
               ELSE currentVideoIndex' = Some(Val(currentVideoIndex) - 1)
            /\ hasPrev(currentVideoIndex)
                 <=> (currentVideoIndex' # currentVideoIndex)]_vars

\* previous was invoked at index 0 of a list of several entries: nothing was
\* bound anew
C2_Witness ==
    /\ last.op = "handlePrevVideo"
    /\ last.ops = <<>>
    /\ currentVideoIndex = Some(0)
    /\ Len(videos) > 1

\* C10: selecting an entry shown in a folder's file list signals the position
\* at which that same entry sits in the list (identifiers being unique).
C10_SelectedEntryIsBound ==
    [][\A k \in 1..Len(filteredVideos) :
          PlayEntry(k) => BoundVideo(videos, currentVideoIndex') = filteredVideos[k]]_vars

----------------------------------------------------------------------------
(* The player view *)

BindOps == <<"setError(null)", "pause", "src", "load", "play">>

\* A step that binds a new entry to the player view: the view is mounted
\* after it and its entry is not the one bound before.
BindsNewEntry ==
    /\ currentVideoIndex' # null
    /\ \/ currentVideoIndex = null
       \/ BoundVideo(videos', currentVideoIndex') # BoundVideo(videos, currentVideoIndex)

\* The same entry is bound before and after a step.
SameEntryBound ==
    /\ currentVideoIndex # null
    /\ currentVideoIndex' = currentVideoIndex

Reloaded(ops) == \E i \in 1..Len(ops) : ops[i] = "load"

C4_LockedControlsInert ==
    [][player.settings.isLocked =>
        /\ last'.op = "handleSeek" =>
             /\ player'.progress = player.progress
             /\ el'.currentTime = el.currentTime
        /\ last'.op = "changeAspectRatio" =>
             player'.settings.aspectRatio = player.settings.aspectRatio
        /\ last'.op = "changeSpeed" =>
             /\ player'.settings.playbackSpeed = player.settings.playbackSpeed
             /\ el'.playbackRate = el.playbackRate]_vars

\* C5: once the element has reported an error for the bound entry, the error
\* state stays set while that entry remains bound, and no reload and play of
\* that entry is started.
C5_ErrorIsTerminal ==
    [][/\ last'.op = "handleVideoError" =>
            /\ player'.error # null
            /\ ~Reloaded(last'.ops)
       /\ (player.error # null /\ SameEntryBound) =>
            /\ player'.error # null
            /\ ~Reloaded(last'.ops)]_vars

\* C6: every time the bound entry changes, the player clears the error,
\* pauses the element, assigns the new entry's locator, reloads and issues a
\* play request, in that order; after it the error is cleared, the element
\* holds the new locator at time zero, and the play request is pending.
C6_BindSequence ==
    [][BindsNewEntry =>
        /\ last'.ops = BindOps
        /\ player'.error = null
        /\ el'.src = Some(BoundVideo(videos', currentVideoIndex').url)
        /\ el'.currentTime = 0
        /\ ~el'.paused
        /\ \E pr \in plays' : pr.kind = "bind"]_vars

\* previous has bound another entry to a player that had played the entry
\* before to its end: the progress cell still shows the old position
C6_Witness ==
    /\ Bound("handlePrevVideo")
    /\ el.src = Some(BoundVideo(videos, currentVideoIndex).url)
    /\ el.currentTime = 0
    /\ player.progress = Some(100)

\* C7: the inactivity timer hides the controls only in a state where the
\* player is playing, unlocked and has no error: fired while the player is
\* paused or locked, it leaves the controls visible.
C7_TimerHidesOnlyWhilePlaying ==
    [][(last'.op = "timer" /\ player.showControls /\ ~player'.showControls) =>
        /\ player.isPlaying
        /\ ~player.settings.isLocked
        /\ player.error = null]_vars

\* C8: when the element reports end-of-media, the playing state becomes false
\* and the error state keeps the value it had.
C8_EndedPauses ==
    [][last'.op = "onEnded" =>
        /\ ~player'.isPlaying
        /\ player'.error = player.error]_vars

\* end-of-media has arrived at a player that was playing (the change of the
\* playing state has run the load effect)
C8_Witness ==
    /\ Bound("onEnded")
    /\ ~player.isPlaying
    /\ player.error = null

\* C9: when the play request of a bind is rejected, the playing state is set
\* to false and no error is set; only the element's error event takes the
\* error state from cleared to set.
C9_RejectedPlayIsNoError ==
    [][/\ last'.op = "playCatch" =>
            /\ ~player'.isPlaying
            /\ player'.error # null => player.error # null
       /\ (player.error = null /\ player'.error # null) =>
            last'.op = "handleVideoError"]_vars

\* the play request of a bind was rejected
C9_Witness ==
    /\ last.op = "playCatch"
    /\ ~player.isPlaying
    /\ player.error = null
    /\ el.paused

----------------------------------------------------------------------------
(* The cycles of the aspect ratio and the speed *)

\* The mode an activation is to lead to: Fit, Stretch, Crop, 16:9, 4:3, Fit
AspectAfter(mode) ==
    CASE mode = FIT -> STRETCH
      [] mode = STRETCH -> CROP
      [] mode = CROP -> SIXTEEN_NINE
      [] mode = SIXTEEN_NINE -> FOUR_THREE
      [] mode = FOUR_THREE -> FIT

\* The speed an activation is to lead to: 0.5, 1, 1.25, 1.5, 2, 0.5
SpeedAfter(speed) ==
    CASE speed = 50 -> 100
      [] speed = 100 -> 125
      [] speed = 125 -> 150
      [] speed = 150 -> 200
      [] speed = 200 -> 50

\* One activation of a control from the world w: the handler and the
\* re-render after it.
Activated(w, handled) == [Render(w.p, video, handled, video) EXCEPT !.ops = <<>>]

AspectActivations(w, n) ==
    LET a[i \in 0..n] ==
            IF i = 0 THEN w ELSE Activated(a[i - 1], changeAspectRatio(a[i - 1]))
    IN [i \in 0..n |-> a[i].p.settings.aspectRatio]

SpeedActivations(w, n) ==
    LET a[i \in 0..n] ==
            IF i = 0 THEN w ELSE Activated(a[i - 1], changeSpeed(a[i - 1]))
    IN [i \in 0..n |-> a[i].p.settings.playbackSpeed]

\* C11: every aspect-change activation leads to the next mode of Fit,
\* Stretch, Crop, 16:9, 4:3 and every speed-change activation to the next
\* speed of 0.5, 1, 1.25, 1.5, 2 (wrapping), and from every state of a mounted
\* player five consecutive activations of either visit the five values in
\* that order and end at the value they started from.
C11_FiveActivationsCycle ==
    /\ [][/\ last'.op = "changeAspectRatio" =>
               player'.settings.aspectRatio = AspectAfter(player.settings.aspectRatio)
          /\ last'.op = "changeSpeed" =>
               player'.settings.playbackSpeed = SpeedAfter(player.settings.playbackSpeed)]_vars
    /\ [](Mounted =>
            LET modes == AspectActivations(World, 5)
                rates == SpeedActivations(World, 5)
            IN /\ modes[5] = modes[0]
               /\ \A i \in 0..4 : modes[i + 1] = AspectAfter(modes[i])
               /\ {modes[i] : i \in 0..4} = AspectRatio
               /\ rates[5] = rates[0]
               /\ \A i \in 0..4 : rates[i + 1] = SpeedAfter(rates[i])
               /\ {rates[i] : i \in 0..4} = {50, 100, 125, 150, 200})

\* the fifth aspect-change activation has brought a player back to Fit, after
\* four speed-change activations
C11_Witness ==
    /\ last.op = "changeAspectRatio"
    /\ player.settings.aspectRatio = FIT
    /\ player.settings.playbackSpeed = 50

----------------------------------------------------------------------------
(* The inactivity timer and the unmount of the player *)

\* C12: no inactivity timer of a player view that back-to-library has
\* unmounted is still pending, and no callback of such a timer runs.
C12_TimerClearedOnUnmount ==
    /\ ~orphanTimers
    /\ last.op # "orphanTimer"

----------------------------------------------------------------------------
(* The bind sequence and the entry bound *)

\* C13: a step that leaves the same entry bound to a mounted player (a user
\* pause or play, lock or unlock, the end of the media, a media error, or any
\* other step) never reloads the media, never resets the playback position
\* to zero (a seek to zero aside) and never starts playback (the user's own
\* play aside).
C13_BindOnlyOnEntryChange ==
    [][SameEntryBound =>
          /\ ~Reloaded(last'.ops)
          /\ (el.currentTime # 0 /\ el'.currentTime = 0) => last'.op = "handleSeek"
          /\ last'.op # "togglePlay" =>
                \A i \in 1..Len(last'.ops) : last'.ops[i] # "play"]_vars

====
